---- MODULE Spec2Model ----
(***************************************************************************)
(* Model of colossalai/auto_parallel/meta_profiler/meta_registry/          *)
(* pooling.py: the two cost estimators avgpool_meta_info and               *)
(* maxpool_meta_info, a caller that builds the positional argument list    *)
(* and consumes the result, and the module-level flop_mapping table the    *)
(* estimators read.                                                        *)
(*                                                                         *)
(* A tensor is its meta description [numel, width]: element count and      *)
(* element size in bytes (shape-only "meta" tensors carry no data).        *)
(* Costs are integers (FLOP and byte counts).                              *)
(***************************************************************************)
EXTENDS Integers, Sequences, FiniteSets, TLC

\* ---------------------------------------------------------------- bounds
MaxNumel == 2        \* largest element count of an enumerated tensor
MaxArgs == 3         \* longest positional argument list the caller builds
DetMaxArgs == 2      \* longest argument list in the two-call specification
MaxK == 3            \* largest scaling factor tried in the scaling law

\* ------------------------------------------------------- program constants
Int64Size == 8       \* element size of torch.int64, pooling.py line 100

ElementSizes == {1, 2, 4, 8}
DetElementSizes == {4}

OperationDataType == {"ARG", "OUTPUT", "PARAM"}

\* the enumerated tensors: the smallest and the largest element count in the
\* one-call specification, every count up to the largest in the two-call one
Tensors == [numel : {1, MaxNumel}, width : ElementSizes]
DetTensors == [numel : 1..MaxNumel, width : DetElementSizes]
ParamTensor == [numel |-> 1, width |-> 4]

\* OperationData items: a role tag paired with a tensor (.type, .data)
Items ==
    [type : {"ARG", "OUTPUT"}, data : Tensors] \cup [type : {"PARAM"}, data : {ParamTensor}]
DetItems ==
    [type : {"ARG", "OUTPUT"}, data : DetTensors] \cup [type : {"PARAM"}, data : {ParamTensor}]

KwargsSet == {{}, {"ceil_mode"}}
DetKwargsSet == {{}}

Primitives ==
    {"_adaptive_avg_pool2d", "_adaptive_avg_pool2d_backward",
     "max_pool2d_with_indices", "max_pool2d_with_indices_backward"}

\* Two FLOP tables: the element-wise counters, and one whose four functions
\* weigh inputs and outputs differently from each other.
FlopTables ==
    { [p \in Primitives |->
          IF p \in {"_adaptive_avg_pool2d", "max_pool2d_with_indices"}
          THEN [in_scale |-> 1, out_scale |-> 0]
          ELSE [in_scale |-> 0, out_scale |-> 1]],
      [p \in Primitives |->
          CASE p = "_adaptive_avg_pool2d" -> [in_scale |-> 2, out_scale |-> 1]
            [] p = "_adaptive_avg_pool2d_backward" -> [in_scale |-> 1, out_scale |-> 3]
            [] p = "max_pool2d_with_indices" -> [in_scale |-> 3, out_scale |-> 2]
            [] p = "max_pool2d_with_indices_backward" -> [in_scale |-> 5, out_scale |-> 1]] }

VARIABLES
    flop_mapping,   \* the module-level FLOP table the estimators read
    args,           \* the positional arguments (*args) of the call
    pc,             \* "idle": the caller is building args; "returned": a call ended
    est,            \* which estimator ran ("avgpool" / "maxpool" / "none")
    kwargs,         \* the keyword arguments (**kwargs) of the call
    ret,            \* what the call produced: a result or a raised exception
    ref             \* an earlier finished call the observer remembers

vars == <<flop_mapping, args, pc, est, kwargs, ret, ref>>

NoTensor == [numel |-> 0, width |-> 0]
NoRet == [outcome |-> "none"]
NoCall == [est |-> "none"]

\* ------------------------------------------------------ consumed helpers
RECURSIVE SumBytes(_)
SumBytes(s) ==
    IF s = <<>> THEN 0 ELSE Head(s).numel * Head(s).width + SumBytes(Tail(s))

\* activation_size of one tensor: numel * element_size
activation_size(out) == out.numel * out.width

\* activation_size of a list of tensors: the sum over its elements
activation_size_list(out) == SumBytes(out)

RECURSIVE SumNumel(_)
SumNumel(s) ==
    IF s = <<>> THEN 0 ELSE Head(s).numel + SumNumel(Tail(s))

\* a FLOP function applied to (forward inputs, forward outputs)
flop(fn, ins, outs) == fn.in_scale * SumNumel(ins) + fn.out_scale * SumNumel(outs)

\* ----------------------------------------------------- the estimators' parts
\* variant of next_filter: next(..., default) yielding an empty tensor
next_filter_default(t, a) ==
    IF \E i \in 1..Len(a) : a[i].type = t
    THEN [found |-> TRUE,
          data |-> a[CHOOSE i \in 1..Len(a) :
                        /\ a[i].type = t
                        /\ \A j \in 1..(i - 1) : a[j].type # t].data]
    ELSE [found |-> TRUE, data |-> NoTensor]

\* variant of next_filter: the last match instead of the first
next_filter_last(t, a) ==
    IF \E i \in 1..Len(a) : a[i].type = t
    THEN [found |-> TRUE,
          data |-> a[CHOOSE i \in 1..Len(a) :
                        /\ a[i].type = t
                        /\ \A j \in (i + 1)..Len(a) : a[j].type # t].data]
    ELSE [found |-> FALSE, data |-> NoTensor]

\* variant of next_filter: rejects a role that occurs more than once
next_filter_unique(t, a) ==
    IF Cardinality({i \in 1..Len(a) : a[i].type = t}) = 1
    THEN [found |-> TRUE,
          data |-> a[CHOOSE i \in 1..Len(a) : a[i].type = t].data]
    ELSE [found |-> FALSE, data |-> NoTensor]

\* next(filter(lambda x: x.type == t, a)): the first item of a tagged t;
\* found = FALSE stands for the StopIteration next() raises on no match.
next_filter(t, a) ==
    IF \E i \in 1..Len(a) : a[i].type = t
    THEN [found |-> TRUE,
          data |-> a[CHOOSE i \in 1..Len(a) :
                        /\ a[i].type = t
                        /\ \A j \in 1..(i - 1) : a[j].type # t].data]
    ELSE [found |-> FALSE, data |-> NoTensor]

\* variant of index_matrix_of: a one-element buffer whatever the output shape
index_matrix_scalar(output_tensor) == [numel |-> 1, width |-> Int64Size]

\* variant of index_matrix_of: a buffer kept from an earlier call and reused
index_matrix_cached(output_tensor) ==
    IF ref.est = "maxpool" /\ ref.ret.outcome = "ok"
    THEN [numel |-> ref.ret.flop_calls.fwd_out_args[1].numel, width |-> Int64Size]
    ELSE [numel |-> output_tensor.numel, width |-> Int64Size]

\* torch.zeros_like(output_tensor, device="meta", dtype=torch.int64)
index_matrix_of(output_tensor) == [numel |-> output_tensor.numel, width |-> Int64Size]

\* variant of compute_cost_of: the total leaves the backward cost out
compute_cost_fwd_only(fwd_compute_cost, bwd_compute_cost) ==
    [fwd |-> fwd_compute_cost, bwd |-> bwd_compute_cost, total |-> fwd_compute_cost]

\* TrainCycleItem(fwd=..., bwd=..., total=fwd + bwd) of the compute costs
compute_cost_of(fwd_compute_cost, bwd_compute_cost) ==
    [fwd |-> fwd_compute_cost, bwd |-> bwd_compute_cost,
     total |-> fwd_compute_cost + bwd_compute_cost]

\* variant of avgpool_fwd_mem_cost: sized by the input tensor
avgpool_fwd_mem_cost_input(input_tensor, output_tensor) ==
    [activation |-> activation_size(input_tensor), temp |-> 0]

\* avgpool: fwd_mem_cost = MemoryCost(activation=activation_size(output_tensor))
avgpool_fwd_mem_cost(input_tensor, output_tensor) ==
    [activation |-> activation_size(output_tensor), temp |-> 0]

\* avgpool: bwd_mem_cost = MemoryCost(activation=activation_size(input_tensor))
avgpool_bwd_mem_cost(input_tensor, output_tensor) ==
    [activation |-> activation_size(input_tensor), temp |-> 0]

\* maxpool: fwd_mem_cost over [input_tensor, output_tensor, index_matrix]
maxpool_fwd_mem_cost(input_tensor, output_tensor, index_matrix) ==
    [activation |-> activation_size_list(<<input_tensor, output_tensor, index_matrix>>),
     temp |-> 0]

\* variant of maxpool_bwd_mem_cost: the index buffer is not subtracted
maxpool_bwd_mem_cost_nosub(input_tensor, index_matrix) ==
    [activation |-> activation_size(input_tensor),
     temp |-> activation_size(index_matrix)]

\* maxpool: bwd_mem_cost = MemoryCost(activation=size(input) - size(index), temp=size(index))
maxpool_bwd_mem_cost(input_tensor, index_matrix) ==
    [activation |-> activation_size(input_tensor) - activation_size(index_matrix),
     temp |-> activation_size(index_matrix)]

\* total_mem_cost = MemoryCost(activation=fwd.activation + bwd.activation, temp=bwd.temp)
\* (avgpool passes no temp: MemoryCost's default 0, which is also bwd.temp there)
total_mem_cost(fwd_mem_cost, bwd_mem_cost) ==
    [activation |-> fwd_mem_cost.activation + bwd_mem_cost.activation,
     temp |-> bwd_mem_cost.temp]

StopIteration(line) == [outcome |-> "StopIteration", line |-> line]

\* the pure function avgpool_meta_info(*args, **kwargs)
avgpool_meta_info(a, kw) ==
    LET inp == next_filter("ARG", a)
        outp == next_filter("OUTPUT", a)
    IN  IF ~inp.found THEN StopIteration(33)
        ELSE IF ~outp.found THEN StopIteration(34)
        ELSE
          LET input_tensor == inp.data
              output_tensor == outp.data
              fwd_in_args == <<input_tensor>>
              fwd_out_args == <<output_tensor>>
              bwd_in_args == <<output_tensor>>
              bwd_out_args == <<input_tensor>>
              fwd_compute_cost ==
                  flop(flop_mapping["_adaptive_avg_pool2d"], fwd_in_args, fwd_out_args)
              bwd_compute_cost ==
                  flop(flop_mapping["_adaptive_avg_pool2d_backward"], bwd_in_args, bwd_out_args)
              fwd_mem_cost == avgpool_fwd_mem_cost(input_tensor, output_tensor)
              bwd_mem_cost == avgpool_bwd_mem_cost(input_tensor, output_tensor)
          IN  [outcome |-> "ok",
               compute_cost |-> compute_cost_of(fwd_compute_cost, bwd_compute_cost),
               mem_cost |-> [fwd |-> fwd_mem_cost, bwd |-> bwd_mem_cost,
                             total |-> total_mem_cost(fwd_mem_cost, bwd_mem_cost)],
               fwd_in |-> <<input_tensor>>,
               flop_calls |-> [fwd_in_args |-> fwd_in_args, fwd_out_args |-> fwd_out_args,
                               bwd_in_args |-> bwd_in_args, bwd_out_args |-> bwd_out_args],
               index_matrix |-> NoTensor]

\* the pure function maxpool_meta_info(*args, **kwargs)
maxpool_meta_info(a, kw) ==
    LET inp == next_filter("ARG", a)
        outp == next_filter("OUTPUT", a)
    IN  IF ~inp.found THEN StopIteration(88)
        ELSE IF ~outp.found THEN StopIteration(89)
        ELSE
          LET input_tensor == inp.data
              output_tensor == outp.data
              fwd_in_args == <<input_tensor>>
              fwd_out_args == <<output_tensor>>
              bwd_in_args == <<output_tensor>>
              bwd_out_args == <<input_tensor>>
              index_matrix == index_matrix_of(output_tensor)
              fwd_compute_cost ==
                  flop(flop_mapping["max_pool2d_with_indices"], fwd_in_args, fwd_out_args)
              bwd_compute_cost ==
                  flop(flop_mapping["max_pool2d_with_indices_backward"], bwd_in_args, bwd_out_args)
              fwd_mem_cost == maxpool_fwd_mem_cost(input_tensor, output_tensor, index_matrix)
              bwd_mem_cost == maxpool_bwd_mem_cost(input_tensor, index_matrix)
          IN  [outcome |-> "ok",
               compute_cost |-> compute_cost_of(fwd_compute_cost, bwd_compute_cost),
               mem_cost |-> [fwd |-> fwd_mem_cost, bwd |-> bwd_mem_cost,
                             total |-> total_mem_cost(fwd_mem_cost, bwd_mem_cost)],
               fwd_in |-> <<input_tensor>>,
               flop_calls |-> [fwd_in_args |-> fwd_in_args, fwd_out_args |-> fwd_out_args,
                               bwd_in_args |-> bwd_in_args, bwd_out_args |-> bwd_out_args],
               index_matrix |-> index_matrix]

\* ------------------------------------------------------------ the machine
Init ==
    /\ flop_mapping \in FlopTables
    /\ args = <<>>
    /\ pc = "idle"
    /\ est = "none"
    /\ kwargs = {}
    /\ ret = NoRet
    /\ ref = NoCall

\* the caller appends one OperationData item to the positional arguments
PushArg(item, maxLen) ==
    /\ pc = "idle"
    /\ Len(args) < maxLen
    /\ args' = Append(args, item)
    /\ UNCHANGED <<flop_mapping, pc, est, kwargs, ret, ref>>

\* one call of avgpool_meta_info(*args, **kwargs), start to return or raise
CallAvgPool(kw) ==
    /\ pc = "idle"
    /\ pc' = "returned"
    /\ est' = "avgpool"
    /\ kwargs' = kw
    /\ ret' = avgpool_meta_info(args, kw)
    /\ UNCHANGED <<flop_mapping, args, ref>>

\* one call of maxpool_meta_info(*args, **kwargs), start to return or raise
CallMaxPool(kw) ==
    /\ pc = "idle"
    /\ pc' = "returned"
    /\ est' = "maxpool"
    /\ kwargs' = kw
    /\ ret' = maxpool_meta_info(args, kw)
    /\ UNCHANGED <<flop_mapping, args, ref>>

\* the caller consumes the result (or the exception) and starts afresh
Discard ==
    /\ pc = "returned"
    /\ pc' = "idle"
    /\ args' = <<>>
    /\ est' = "none"
    /\ kwargs' = {}
    /\ ret' = NoRet
    /\ UNCHANGED <<flop_mapping, ref>>

\* the observer keeps the finished call for comparison with later ones
Remember ==
    /\ pc = "returned"
    /\ ref' = [est |-> est, args |-> args, kwargs |-> kwargs, ret |-> ret]
    /\ UNCHANGED <<flop_mapping, args, pc, est, kwargs, ret>>

Next ==
    \/ \E item \in Items : PushArg(item, MaxArgs)
    \/ \E kw \in KwargsSet : CallAvgPool(kw)
    \/ \E kw \in KwargsSet : CallMaxPool(kw)
    \/ Discard

Spec == Init /\ [][Next]_vars

NextDet ==
    \/ \E item \in DetItems : PushArg(item, DetMaxArgs)
    \/ \E kw \in DetKwargsSet : CallAvgPool(kw)
    \/ \E kw \in DetKwargsSet : CallMaxPool(kw)
    \/ Discard
    \/ Remember

SpecDet == Init /\ [][NextDet]_vars

TypeOK ==
    /\ flop_mapping \in FlopTables
    /\ args \in Seq(Items)
    /\ pc \in {"idle", "returned"}
    /\ est \in {"none", "avgpool", "maxpool"}
    /\ ret.outcome \in {"none", "ok", "StopIteration"}

\* ------------------------------------------------- vocabulary of the claims
Returned == pc = "returned"
Ok == ret.outcome = "ok"

Count(t) == Cardinality({i \in 1..Len(args) : args[i].type = t})
Has(t) == Count(t) >= 1
HasBoth == Has("ARG") /\ Has("OUTPUT")

FirstIndex(t) == CHOOSE i \in 1..Len(args) :
    /\ args[i].type = t
    /\ \A j \in 1..Len(args) : args[j].type = t => i <= j

In == args[FirstIndex("ARG")].data
Out == args[FirstIndex("OUTPUT")].data
Bytes(t) == t.numel * t.width
IndexBytes == 8 * Out.numel

Estimate(e, a, kw) == IF e = "avgpool" THEN avgpool_meta_info(a, kw) ELSE maxpool_meta_info(a, kw)

Scaled(a, k) ==
    [i \in 1..Len(a) |->
        [type |-> a[i].type,
         data |-> [numel |-> k * a[i].data.numel, width |-> a[i].data.width]]]

\* C1: for every max-pooling call with an ARGUMENT and an OUTPUT item whose
\* output has at most as many elements as its input, the index buffer
\* (8 bytes per output element) is no larger than the input tensor, so
\* memory.backward.activation is never negative, whatever the element width.
C1_IndexWithinInput ==
    (Returned /\ est = "maxpool" /\ HasBoth /\ Out.numel <= In.numel) =>
        /\ Ok
        /\ IndexBytes <= Bytes(In)
        /\ ret.mem_cost.bwd.activation >= 0

\* C2: every max-pooling call with an ARGUMENT and an OUTPUT item reports
\* forward activation = input + output + index buffer with no forward
\* temporary, backward activation = input - index buffer with the index
\* buffer as backward temporary, total = forward + backward (temporary =
\* backward temporary), hence total activation = 2*input + output.
C2_MaxPoolMemory ==
    (Returned /\ est = "maxpool" /\ HasBoth) =>
        /\ Ok
        /\ ret.mem_cost.fwd.activation = Bytes(In) + Bytes(Out) + IndexBytes
        /\ ret.mem_cost.fwd.temp = 0
        /\ ret.mem_cost.bwd.activation = Bytes(In) - IndexBytes
        /\ ret.mem_cost.bwd.temp = IndexBytes
        /\ ret.mem_cost.total.activation =
               ret.mem_cost.fwd.activation + ret.mem_cost.bwd.activation
        /\ ret.mem_cost.total.temp = ret.mem_cost.bwd.temp
        /\ ret.mem_cost.total.activation = 2 * Bytes(In) + Bytes(Out)

C2_Witness ==
    /\ Returned /\ est = "maxpool" /\ HasBoth /\ Ok
    /\ In.numel = 2 /\ Out.numel = 1 /\ In.width = 4 /\ Out.width = 2
    /\ ret.mem_cost.bwd.temp = 8

\* C3: every average-pooling call with an ARGUMENT and an OUTPUT item reports
\* forward activation = size of the output, backward activation = size of
\* the input, no temporaries, total activation = forward + backward and
\* total temporary 0.
C3_AvgPoolMemory ==
    (Returned /\ est = "avgpool" /\ HasBoth) =>
        /\ Ok
        /\ ret.mem_cost.fwd.activation = Bytes(Out)
        /\ ret.mem_cost.bwd.activation = Bytes(In)
        /\ ret.mem_cost.fwd.temp = 0
        /\ ret.mem_cost.bwd.temp = 0
        /\ ret.mem_cost.total.activation =
               ret.mem_cost.fwd.activation + ret.mem_cost.bwd.activation
        /\ ret.mem_cost.total.temp = 0

C3_Witness ==
    /\ Returned /\ est = "avgpool" /\ HasBoth /\ Ok
    /\ Bytes(In) = 8 /\ Bytes(Out) = 2
    /\ ret.mem_cost.total.activation = 10

\* C4: a call of either estimator whose arguments lack an ARGUMENT item or
\* lack an OUTPUT item ends in the missing-operand exception (Python's
\* StopIteration from next()): nothing else is returned, in particular no
\* cost record, whatever other items the list holds and in whatever order.
C4_MissingOperandRaises ==
    (Returned /\ ~HasBoth) =>
        /\ ret.outcome = "StopIteration"
        /\ DOMAIN ret = {"outcome", "line"}

C4_Witness ==
    /\ Returned /\ Len(args) = 3
    /\ ~Has("ARG") /\ Has("OUTPUT") /\ Has("PARAM")
    /\ args[1].type = "PARAM"
    /\ ret.outcome = "StopIteration"

\* C5 (as stated): a call whose arguments hold two or more ARGUMENT items, or
\* two or more OUTPUT items, signals the missing-operand exception and
\* returns no cost result.
C5_DuplicateRaises ==
    (Returned /\ (Count("ARG") >= 2 \/ Count("OUTPUT") >= 2)) =>
        ret.outcome = "StopIteration"

\* C5 (amended): a call whose arguments hold two or more ARGUMENT items, or
\* two or more OUTPUT items, is not rejected for that: if both roles are
\* present it returns the cost result of the first ARGUMENT and the first
\* OUTPUT item; it raises only if one of the two roles is absent altogether.
C5_DuplicateFirstMatch ==
    (Returned /\ (Count("ARG") >= 2 \/ Count("OUTPUT") >= 2)) =>
        IF HasBoth
        THEN /\ Ok
             /\ ret.flop_calls.fwd_in_args = <<In>>
             /\ ret.flop_calls.fwd_out_args = <<Out>>
        ELSE ret.outcome = "StopIteration"

C5_Witness ==
    /\ Returned /\ Ok
    /\ Count("ARG") = 2 /\ Count("OUTPUT") = 1
    /\ args[1].type = "ARG" /\ args[2].type = "ARG"
    /\ args[1].data # args[2].data

\* C6: for every max-pooling call the backward FLOP function is handed the
\* output-gradient-shaped tensor together with the index buffer as its
\* forward-input descriptors and the input tensor as its forward-output
\* descriptor.
C6_IndexInBackwardArgs ==
    (Returned /\ est = "maxpool" /\ Ok) =>
        /\ Len(ret.flop_calls.bwd_in_args) >= 2
        /\ \E i \in 1..Len(ret.flop_calls.bwd_in_args) :
               ret.flop_calls.bwd_in_args[i] = Out
        /\ \E i \in 1..Len(ret.flop_calls.bwd_in_args) :
               ret.flop_calls.bwd_in_args[i] = ret.index_matrix
        /\ ret.flop_calls.bwd_out_args = <<In>>

\* C7: for both estimators and every FLOP table, compute.total = compute.forward
\* + compute.backward, compute.forward is the forward primitive's FLOP
\* function on ([input], [output]) and, for average pooling, compute.backward
\* is the backward primitive's FLOP function on ([output], [input]).
C7_ComputeCost ==
    (Returned /\ Ok) =>
        /\ ret.compute_cost.total = ret.compute_cost.fwd + ret.compute_cost.bwd
        /\ ret.compute_cost.fwd =
               flop(flop_mapping[IF est = "avgpool" THEN "_adaptive_avg_pool2d"
                                 ELSE "max_pool2d_with_indices"], <<In>>, <<Out>>)
        /\ est = "avgpool" =>
               ret.compute_cost.bwd =
                   flop(flop_mapping["_adaptive_avg_pool2d_backward"], <<Out>>, <<In>>)

C7_Witness ==
    /\ Returned /\ Ok /\ est = "avgpool"
    /\ In.numel = 2 /\ Out.numel = 1
    /\ ret.compute_cost.fwd = 5 /\ ret.compute_cost.bwd = 7
    /\ ret.compute_cost.total = 12

\* C8: scaling the element counts of the input (and, the pooling ratio being
\* fixed, of the output) by k, with the element widths unchanged, multiplies
\* memory.forward.activation by exactly k: the output size for average
\* pooling, the combined size of input, output and index buffer for max
\* pooling.
C8_ForwardActivationScales ==
    (Returned /\ Ok) =>
        \A k \in 1..MaxK :
            LET scaled == Estimate(est, Scaled(args, k), kwargs)
            IN  /\ scaled.outcome = "ok"
                /\ scaled.mem_cost.fwd.activation = k * ret.mem_cost.fwd.activation
                /\ scaled.mem_cost.fwd.activation =
                       IF est = "avgpool" THEN k * Bytes(Out)
                       ELSE k * (Bytes(In) + Bytes(Out) + IndexBytes)

C8_Witness ==
    /\ Returned /\ Ok /\ est = "maxpool"
    /\ In.numel = 2 /\ Out.numel = 2 /\ In.width = 4 /\ Out.width = 4
    /\ ret.mem_cost.fwd.activation = 2 * (4 + 4 + 8)

C10_FirstMatch ==
    (Returned /\ HasBoth) =>
        /\ Ok
        /\ ret = Estimate(est, <<[type |-> "ARG", data |-> In],
                                 [type |-> "OUTPUT", data |-> Out]>>, {})
        /\ ret = Estimate(est, <<[type |-> "OUTPUT", data |-> Out],
                                 [type |-> "ARG", data |-> In]>>, {})
        /\ ret.fwd_in = <<In>>

C10_Witness ==
    /\ Returned /\ Ok /\ Len(args) = 3 /\ kwargs # {}
    /\ args[1].type = "OUTPUT" /\ args[2].type = "ARG" /\ args[3].type = "ARG"
    /\ args[2].data # args[3].data
    /\ ret.fwd_in = <<args[2].data>>
====
